---- MODULE Spec2Model ----
(***************************************************************************)
(* Booking conflict-resolution core of the trainer-booking backend:        *)
(* Booking.check_booking_conflict, BookingCreateSerializer (validate and   *)
(* create), the booking request handlers (create, update, destroy), the    *)
(* admin cancel override and the payment webhooks that save a booking.     *)
(*                                                                         *)
(* Request handlers run concurrently.  A step of the model is one database *)
(* statement of a handler together with the in-memory work around it.      *)
(* Times of day are minutes after midnight, instants are minutes since     *)
(* day 0, money is in cents.                                               *)
(***************************************************************************)
EXTENDS Integers, Sequences, FiniteSets, TLC

\* ---------------------------------------------------------------- bounds
NumProcs == 2        \* concurrent request handlers
MaxOps == 3          \* requests served in one behaviour

\* ------------------------------------------------------ program constants
MinDurationMinutes == 15
CancelWindowHours == 24
DurationToleranceMinutes == 1
MinutesPerHour == 60
DayMinutes == 24 * MinutesPerHour

Procs == 1..NumProcs
BookingIds == 1..MaxOps


\* Trainer profiles: 1 and 2 are published, 3 exists but is unpublished,
\* 4 is an id no TrainerProfile row has.
PublishedTrainers == {1, 2}
ExistingTrainers == {1, 2, 3}
RequestTrainers == {1, 2, 3, 4}
Clients == {1, 2}

\* TrainerProfile.hourly_rate in cents.
TrainerRate(t) == CASE t = 1 -> 7500
                    [] t = 2 -> 1
                    [] OTHER -> 0

ActiveStatuses == {"pending", "confirmed"}
CancelledStatuses == {"cancelled_by_client", "cancelled_by_trainer"}
TerminalStatuses == CancelledStatuses \cup {"completed", "no_show"}
Statuses == ActiveStatuses \cup TerminalStatuses
PaymentStatuses == {"unpaid", "pending", "paid", "failed", "refunded"}

None == 0            \* no booking id, no value
NoTime == -1         \* cancelled_at IS NULL
NoPrice == -1        \* total_price is None: not set on the instance

VARIABLES
    db,        \* the bookings table: row i is the booking with id i
    txInsert,  \* txInsert[p]: id of the row p inserted in its open transaction
    held,      \* held[p]: ids of the rows p holds FOR UPDATE locks on
    pc,        \* pc[p]: where handler p stands
    req,       \* req[p]: the request data p serves (validated_data for a create)
    obj,       \* obj[p]: the Booking instance p holds in memory
    conflict,  \* conflict[p]: id check_booking_conflict returned to p, or None
    result,    \* result[p]: the response of p's last request
    now,       \* wall clock, minutes since day 0
    ops,       \* requests begun so far
    outbox,    \* outbox[i]: the booking-created notifications dispatched for booking i
    mailer,    \* which recipients' mail the mail backend accepts
    payments,  \* the payments table: at most one row per booking
    reviews    \* the reviews table

vars == <<db, txInsert, held, pc, req, obj, conflict, result, now, ops, outbox, mailer, payments, reviews>>

\* ------------------------------------------------------------ data shapes
NoReq == [kind |-> "none"]
NoObj == [id |-> None]
NoResult == [status |-> 0, error |-> "none", detail |-> <<>>]
Response(code, err) == [status |-> code, error |-> err, detail |-> <<>>]

Ids == 1..Len(db)

\* A row is visible to p unless another handler inserted it in a transaction
\* that has not committed yet.
Visible(p, i) == \A q \in Procs : q # p => txInsert[q] # i

LockedByOther(p, i) == \E q \in Procs : q # p /\ i \in held[q]

Today == now \div DayMinutes

\* ----------------------------------------------------------- Booking.save
\* Largest k >= -1 with 6 * 10^k <= x: the decimal exponent of x / 6.
RECURSIVE Exp6(_, _, _)
Exp6(x, p, k) == IF p > x THEN k - 1 ELSE Exp6(x, p * 10, k + 1)

Pow10(g) == IF g <= 0 THEN 1 ELSE IF g = 1 THEN 10 ELSE IF g = 2 THEN 100
            ELSE IF g = 3 THEN 1000 ELSE 10000

\* The quotient cut to whole cents instead of quantized.
TotalPriceTruncated(rate, duration) == (rate * duration) \div 60

\* (hourly_rate / Decimal('60')) * Decimal(str(duration_minutes)), quantized to
\* Decimal('0.01'): the quotient is rounded to 28 significant digits (above the
\* exact value when rate % 3 = 1, below it when rate % 3 = 2), the product is
\* rounded to 28 digits again, and quantize rounds half to even.
TotalPrice(rate, duration) ==
    LET n == rate * duration
        q == n \div 60
        r == n % 60
        even == IF q % 2 = 0 THEN q ELSE q + 1
        g == Exp6(n, 6, 0) - Exp6(rate, 6, 0)
        survives == 2 * duration > 3 * Pow10(g)
    IN  IF r < 30 THEN q
        ELSE IF r > 30 THEN q + 1
        ELSE IF rate % 3 = 0 \/ ~survives THEN even
        ELSE IF rate % 3 = 1 THEN q + 1
        ELSE q

\* save() with the price taken per minute at the hourly rate.
SaveFieldsPerMinute(b) ==
    IF b.total_price \in {NoPrice, 0} /\ b.hourly_rate # 0 /\ b.duration_minutes # 0
    THEN [b EXCEPT !.total_price = b.hourly_rate * b.duration_minutes]
    ELSE b

\* The instance as save() writes it: total_price is computed when it is falsy
\* (None or 0.00) and hourly_rate and duration_minutes are truthy.
SaveFields(b) ==
    IF b.total_price \in {NoPrice, 0} /\ b.hourly_rate # 0 /\ b.duration_minutes # 0
    THEN [b EXCEPT !.total_price = TotalPrice(b.hourly_rate, b.duration_minutes)]
    ELSE b

\* ------------------------------------------- Booking.check_booking_conflict
\* The overlap test with the boundary instants counted as occupied.
OverlapsClosed(s1, e1, s2, e2) == s1 <= e2 /\ e1 >= s2

\* The half-open ranges [s1, e1) and [s2, e2) overlap.
Overlaps(s1, e1, s2, e2) == s1 < e2 /\ e1 > s2

\* The locking query without its status filter.
CandidatesAnyStatus(p, trainer, session_date, exclude_booking_id) ==
    {i \in Ids : /\ Visible(p, i)
                 /\ db[i].trainer = trainer
                 /\ db[i].session_date = session_date
                 /\ (exclude_booking_id # None => i # exclude_booking_id)}

\* The rows the locking query selects: the trainer's bookings on the date whose
\* status is pending or confirmed, without the excluded id.
Candidates(p, trainer, session_date, exclude_booking_id) ==
    {i \in Ids : /\ Visible(p, i)
                 /\ db[i].trainer = trainer
                 /\ db[i].session_date = session_date
                 /\ db[i].status \in {"pending", "confirmed"}
                 /\ (exclude_booking_id # None => i # exclude_booking_id)}

\* check_booking_conflict without the exclude() of the given id.
check_booking_conflictNoExclude(p, trainer, session_date, start_time, end_time, exclude_booking_id) ==
    LET hits == {i \in Candidates(p, trainer, session_date, None) :
                    Overlaps(start_time, end_time, db[i].start_time, db[i].end_time)}
    IN  {i \in hits : \A j \in hits : db[j].start_time <= db[i].start_time}

\* The ids the loop over the queryset may return: the queryset is ordered by
\* Meta.ordering (-session_date, -start_time), so the loop returns an overlapping
\* candidate with the latest start_time; {} stands for None.
check_booking_conflict(p, trainer, session_date, start_time, end_time, exclude_booking_id) ==
    LET hits == {i \in Candidates(p, trainer, session_date, exclude_booking_id) :
                    Overlaps(start_time, end_time, db[i].start_time, db[i].end_time)}
    IN  {i \in hits : \A j \in hits : db[j].start_time <= db[i].start_time}

\* -------------------------------------------------- BookingCreateSerializer
\* validate() without its date and time checks.
validateTrainerOnly(data) ==
    IF data.trainer \notin ExistingTrainers THEN "trainer"
    ELSE IF data.duration_minutes < MinDurationMinutes THEN "duration_minutes"
    ELSE IF data.trainer \notin PublishedTrainers THEN "trainer"
    ELSE "ok"

\* Field validation of the ModelSerializer followed by validate(): the name of
\* the first field in error, or "ok".
validate(data) ==
    IF data.trainer \notin ExistingTrainers THEN "trainer"
    ELSE IF data.duration_minutes < MinDurationMinutes THEN "duration_minutes"
    ELSE IF data.session_date < Today THEN "session_date"
    ELSE IF data.start_time >= data.end_time THEN "end_time"
    ELSE IF data.trainer \notin PublishedTrainers THEN "trainer"
    ELSE "ok"

\* time.strftime("%H:%M")
strftime(t) == <<t \div MinutesPerHour, t % MinutesPerHour>>

\* The ValidationError create() raises for the conflicting booking b.
ConflictError(b) ==
    [status |-> 400, error |-> "conflict",
     detail |-> <<strftime(b.start_time), strftime(b.end_time)>>]

\* Booking.objects.create(**validated_data): the instance with the model's
\* defaults, as save() inserts it under the next id.
NewBooking(p) ==
    SaveFields([id |-> Len(db) + 1,
                trainer |-> req[p].trainer,
                client |-> req[p].client,
                session_date |-> req[p].session_date,
                start_time |-> req[p].start_time,
                end_time |-> req[p].end_time,
                duration_minutes |-> req[p].duration_minutes,
                hourly_rate |-> req[p].hourly_rate,
                total_price |-> NoPrice,
                status |-> "pending",
                payment_status |-> "unpaid",
                client_notes |-> req[p].client_notes,
                trainer_notes |-> 0,
                cancellation_reason |-> "",
                cancelled_at |-> NoTime,
                created_at |-> now])

\* The create requests over the given trainers, dates and
\* <<start_time, end_time, duration_minutes>> triples.
CreateInputs(trainers, dates, slots) ==
    {[trainer |-> t, session_date |-> d, start_time |-> s[1], end_time |-> s[2],
      duration_minutes |-> s[3], client_notes |-> 0] :
        t \in trainers, d \in dates, s \in slots}

\* ----------------------------------------------- booking-created emails
\* send_client_booking_confirmation and send_trainer_booking_notification give
\* True when email.send() went through and False when anything in them raised:
\* the exception is caught and logged.
send_client_booking_confirmation == mailer.client
send_trainer_booking_notification == mailer.trainer

\* send_booking_notification_emails: one dispatch of the two emails, with what
\* each send returned; in_transaction tells whether the caller stood inside the
\* creating transaction.
send_booking_notification_emails(in_transaction) ==
    [in_transaction |-> in_transaction,
     client_sent |-> send_client_booking_confirmation,
     trainer_sent |-> send_trainer_booking_notification]

\* The post_save receiver of Booking, run by save() before it returns: it
\* dispatches when the row was created and swallows every exception.
send_booking_emails(created, in_transaction) ==
    IF created THEN <<send_booking_notification_emails(in_transaction)>> ELSE <<>>

Users == [role : {"client"}, id : Clients] \cup [role : {"trainer"}, id : PublishedTrainers]
            \cup [role : {"admin"}, id : {1}]

\* POST /bookings/: is_valid(raise_exception=True), then perform_create's role
\* check; a request that passes both goes on to serializer.save(client=user).
BeginCreate(p, data, user) ==
    /\ pc[p] = "idle"
    /\ ops < MaxOps
    /\ ops' = ops + 1
    /\ LET v == validate(data) IN
         IF v # "ok" THEN
            /\ result' = [result EXCEPT ![p] = Response(400, v)]
            /\ UNCHANGED <<pc, req>>
         ELSE IF user.role # "client" THEN
            /\ result' = [result EXCEPT ![p] = Response(403, "permission_denied")]
            /\ UNCHANGED <<pc, req>>
         ELSE
            /\ pc' = [pc EXCEPT ![p] = "create"]
            /\ req' = [req EXCEPT ![p] =
                        [kind |-> "create",
                         trainer |-> data.trainer,
                         client |-> user.id,
                         session_date |-> data.session_date,
                         start_time |-> data.start_time,
                         end_time |-> data.end_time,
                         duration_minutes |-> data.duration_minutes,
                         client_notes |-> data.client_notes,
                         hourly_rate |-> TrainerRate(data.trainer)]]
            /\ result' = [result EXCEPT ![p] = NoResult]
    /\ UNCHANGED <<db, txInsert, held, obj, conflict, now, outbox, mailer, payments, reviews>>

\* The locking read with a query that filters on the date alone: it locks the
\* active bookings of every trainer on the date.
LockedReadAnyTrainer(p) ==
    /\ pc[p] = "create"
    /\ LET cand == {i \in Ids : /\ Visible(p, i)
                                /\ db[i].session_date = req[p].session_date
                                /\ db[i].status \in {"pending", "confirmed"}}
           found == check_booking_conflict(p, req[p].trainer, req[p].session_date,
                                           req[p].start_time, req[p].end_time, None)
       IN  /\ \A i \in cand : ~LockedByOther(p, i)
           /\ held' = [held EXCEPT ![p] = cand]
           /\ IF found = {}
              THEN /\ conflict' = [conflict EXCEPT ![p] = None]
                   /\ pc' = [pc EXCEPT ![p] = "insert"]
              ELSE /\ \E c \in found : conflict' = [conflict EXCEPT ![p] = c]
                   /\ pc' = [pc EXCEPT ![p] = "conflict"]
    /\ UNCHANGED <<db, txInsert, req, obj, result, now, ops, outbox, mailer, payments, reviews>>

\* create(): inside transaction.atomic(), the SELECT ... FOR UPDATE of
\* check_booking_conflict.  It waits while another transaction holds a lock on a
\* candidate row, then locks every candidate row and scans them.
LockedRead(p) ==
    /\ pc[p] = "create"
    /\ LET cand == Candidates(p, req[p].trainer, req[p].session_date, None)
           found == check_booking_conflict(p, req[p].trainer, req[p].session_date,
                                           req[p].start_time, req[p].end_time, None)
       IN  /\ \A i \in cand : ~LockedByOther(p, i)
           /\ held' = [held EXCEPT ![p] = cand]
           /\ IF found = {}
              THEN /\ conflict' = [conflict EXCEPT ![p] = None]
                   /\ pc' = [pc EXCEPT ![p] = "insert"]
              ELSE /\ \E c \in found : conflict' = [conflict EXCEPT ![p] = c]
                   /\ pc' = [pc EXCEPT ![p] = "conflict"]
    /\ UNCHANGED <<db, txInsert, req, obj, result, now, ops, outbox, mailer, payments, reviews>>

\* ------------------------------------- the locking read, one row at a time
\* The row of S the queryset returns first: Meta.ordering puts the latest
\* start_time first, and rows with one start_time come in the order of their ids.
FirstInOrder(S) ==
    CHOOSE i \in S :
        \A j \in S : \/ db[j].start_time < db[i].start_time
                     \/ (db[j].start_time = db[i].start_time /\ i <= j)

\* create() enters transaction.atomic() and the SELECT ... FOR UPDATE of
\* check_booking_conflict starts: the statement's snapshot fixes the rows it
\* will lock.
BeginScan(p) ==
    /\ pc[p] = "create"
    /\ pc' = [pc EXCEPT ![p] = "scan"]
    /\ req' = [req EXCEPT ![p] =
                [scan |-> Candidates(p, req[p].trainer, req[p].session_date, None)] @@ req[p]]
    /\ UNCHANGED <<db, txInsert, held, obj, conflict, result, now, ops, outbox, mailer,
                   payments, reviews>>

\* The statement locks its next row: it waits while another transaction holds
\* the row's lock, reads the row again, and keeps the lock when the row is
\* still pending or confirmed.
LockRow(p) ==
    /\ pc[p] = "scan"
    /\ req[p].scan # {}
    /\ LET i == FirstInOrder(req[p].scan)
       IN  /\ ~LockedByOther(p, i)
           /\ held' = [held EXCEPT ![p] =
                        IF db[i].status \in {"pending", "confirmed"} THEN @ \cup {i} ELSE @]
           /\ req' = [req EXCEPT ![p] = [scan |-> req[p].scan \ {i}] @@ req[p]]
    /\ UNCHANGED <<db, txInsert, pc, obj, conflict, result, now, ops, outbox, mailer,
                   payments, reviews>>

\* The loop over the locked rows: the first overlapping one is the conflict.
EndScan(p) ==
    /\ pc[p] = "scan"
    /\ req[p].scan = {}
    /\ LET hits == {i \in held[p] : Overlaps(req[p].start_time, req[p].end_time,
                                            db[i].start_time, db[i].end_time)}
       IN  IF hits = {}
           THEN /\ conflict' = [conflict EXCEPT ![p] = None]
                /\ pc' = [pc EXCEPT ![p] = "insert"]
           ELSE /\ conflict' = [conflict EXCEPT ![p] = FirstInOrder(hits)]
                /\ pc' = [pc EXCEPT ![p] = "conflict"]
    /\ UNCHANGED <<db, txInsert, held, req, obj, result, now, ops, outbox, mailer,
                   payments, reviews>>

\* create() with the row inserted before the check and no rollback.
RaiseConflictAfterInsert(p) ==
    /\ pc[p] = "conflict"
    /\ result' = [result EXCEPT ![p] = ConflictError(db[conflict[p]])]
    /\ db' = Append(db, NewBooking(p))
    /\ outbox' = Append(outbox, <<>>)
    /\ held' = [held EXCEPT ![p] = {}]
    /\ pc' = [pc EXCEPT ![p] = "idle"]
    /\ req' = [req EXCEPT ![p] = NoReq]
    /\ conflict' = [conflict EXCEPT ![p] = None]
    /\ UNCHANGED <<txInsert, obj, now, ops, mailer, payments, reviews>>

\* create(): the conflict raises out of the atomic block, which rolls back and
\* releases the locks; the view answers 400 with the message.
RaiseConflict(p) ==
    /\ pc[p] = "conflict"
    /\ result' = [result EXCEPT ![p] = ConflictError(db[conflict[p]])]
    /\ held' = [held EXCEPT ![p] = {}]
    /\ pc' = [pc EXCEPT ![p] = "idle"]
    /\ req' = [req EXCEPT ![p] = NoReq]
    /\ conflict' = [conflict EXCEPT ![p] = None]
    /\ UNCHANGED <<db, txInsert, obj, now, ops, outbox, mailer, payments, reviews>>

\* create(): Booking.objects.create(**validated_data), the INSERT inside the
\* open transaction; save() then sends post_save, whose receiver dispatches the
\* booking-created emails.
InsertBooking(p) ==
    /\ pc[p] = "insert"
    /\ db' = Append(db, NewBooking(p))
    /\ txInsert' = [txInsert EXCEPT ![p] = Len(db) + 1]
    /\ outbox' = Append(outbox, send_booking_emails(TRUE, TRUE))
    /\ pc' = [pc EXCEPT ![p] = "commit"]
    /\ UNCHANGED <<held, req, obj, conflict, result, now, ops, mailer, payments, reviews>>

\* The view's answer when it lets a failed notification fail the request.
CommitRequiringEmails(p) ==
    /\ pc[p] = "commit"
    /\ result' = [result EXCEPT ![p] =
                    IF mailer.client /\ mailer.trainer
                    THEN [status |-> 201, error |-> "none", detail |-> <<txInsert[p]>>]
                    ELSE Response(500, "email")]
    /\ txInsert' = [txInsert EXCEPT ![p] = None]
    /\ outbox' = [outbox EXCEPT ![txInsert[p]] =
                    Append(@, send_booking_notification_emails(FALSE))]
    /\ held' = [held EXCEPT ![p] = {}]
    /\ pc' = [pc EXCEPT ![p] = "idle"]
    /\ req' = [req EXCEPT ![p] = NoReq]
    /\ UNCHANGED <<db, obj, conflict, now, ops, mailer, payments, reviews>>

\* The atomic block exits: COMMIT publishes the row and releases the locks.
\* Back in the view, send_booking_notification_emails runs inside try/except,
\* and the view answers 201 with the booking.
Commit(p) ==
    /\ pc[p] = "commit"
    /\ result' = [result EXCEPT ![p] =
                    [status |-> 201, error |-> "none", detail |-> <<txInsert[p]>>]]
    /\ txInsert' = [txInsert EXCEPT ![p] = None]
    /\ outbox' = [outbox EXCEPT ![txInsert[p]] =
                    Append(@, send_booking_notification_emails(FALSE))]
    /\ held' = [held EXCEPT ![p] = {}]
    /\ pc' = [pc EXCEPT ![p] = "idle"]
    /\ req' = [req EXCEPT ![p] = NoReq]
    /\ UNCHANGED <<db, obj, conflict, now, ops, mailer, payments, reviews>>

\* ------------------------------------------------------- Booking lifecycle
get_start_datetime(b) == b.session_date * DayMinutes + b.start_time
get_end_datetime(b) == b.session_date * DayMinutes + b.end_time

\* is_past with the end instant itself counted as past.
is_pastInclusive(b) == get_end_datetime(b) <= now

is_past(b) == get_end_datetime(b) < now

can_cancel(b) ==
    IF b.status \notin {"pending", "confirmed"} THEN FALSE
    ELSE now < get_start_datetime(b) - CancelWindowHours * MinutesPerHour

\* confirm() without its status test.
confirmAlways(b) == [inst |-> [b EXCEPT !.status = "confirmed"], saved |-> TRUE]

\* Each method gives the instance after the call and whether it called save().
confirm(b) ==
    IF b.status = "pending"
    THEN [inst |-> [b EXCEPT !.status = "confirmed"], saved |-> TRUE]
    ELSE [inst |-> b, saved |-> FALSE]

\* cancel() charging half the price as a cancellation fee.
cancelHalvingPrice(b, cancelled_by, reason) ==
    [inst |-> [b EXCEPT !.status = IF cancelled_by = "client" THEN "cancelled_by_client"
                                   ELSE "cancelled_by_trainer",
                        !.cancellation_reason = reason,
                        !.cancelled_at = now,
                        !.total_price = b.total_price \div 2],
     saved |-> TRUE]

cancel(b, cancelled_by, reason) ==
    LET st == IF cancelled_by = "client" THEN "cancelled_by_client"
              ELSE IF cancelled_by = "trainer" THEN "cancelled_by_trainer"
              ELSE b.status
    IN  [inst |-> [b EXCEPT !.status = st,
                            !.cancellation_reason = reason,
                            !.cancelled_at = now],
         saved |-> TRUE]

mark_completed(b) ==
    IF b.status = "confirmed" /\ is_past(b)
    THEN [inst |-> [b EXCEPT !.status = "completed"], saved |-> TRUE]
    ELSE [inst |-> b, saved |-> FALSE]

mark_no_show(b) ==
    IF b.status = "confirmed" /\ is_past(b)
    THEN [inst |-> [b EXCEPT !.status = "no_show"], saved |-> TRUE]
    ELSE [inst |-> b, saved |-> FALSE]

\* BookingDetailView.get_queryset: the bookings the user may address.
InQueryset(user, b) ==
    IF user.role = "client" THEN b.client = user.id
    ELSE IF user.role = "trainer" THEN b.trainer = user.id
    ELSE FALSE

\* update() with the actions open to whoever may address the booking.
updateAnyRole(b, user, data) ==
    IF data.action = "confirm" THEN confirm(b)
    ELSE IF data.action = "complete" THEN mark_completed(b)
    ELSE IF data.action = "no_show" THEN mark_no_show(b)
    ELSE IF user.role = "trainer" /\ data.trainer_notes # None
         THEN [inst |-> [b EXCEPT !.trainer_notes = data.trainer_notes], saved |-> TRUE]
    ELSE IF user.role = "client" /\ data.client_notes # None
         THEN [inst |-> [b EXCEPT !.client_notes = data.client_notes], saved |-> TRUE]
    ELSE [inst |-> b, saved |-> FALSE]

\* BookingDetailView.update after get_object: the trainer actions first, then
\* the notes update of the caller's own notes field.
update(b, user, data) ==
    IF data.action = "confirm" /\ user.role = "trainer" THEN confirm(b)
    ELSE IF data.action = "complete" /\ user.role = "trainer" THEN mark_completed(b)
    ELSE IF data.action = "no_show" /\ user.role = "trainer" THEN mark_no_show(b)
    ELSE IF user.role = "trainer" /\ data.trainer_notes # None
         THEN [inst |-> [b EXCEPT !.trainer_notes = data.trainer_notes], saved |-> TRUE]
    ELSE IF user.role = "client" /\ data.client_notes # None
         THEN [inst |-> [b EXCEPT !.client_notes = data.client_notes], saved |-> TRUE]
    ELSE [inst |-> b, saved |-> FALSE]

\* destroy() that records every cancellation as the client's.
destroyAsClient(b, user, reason) ==
    IF ~can_cancel(b) THEN [inst |-> b, saved |-> FALSE, code |-> 400]
    ELSE [inst |-> cancel(b, "client", reason).inst, saved |-> TRUE, code |-> 200]

\* BookingDetailView.destroy after get_object.
destroy(b, user, reason) ==
    IF ~can_cancel(b) THEN [inst |-> b, saved |-> FALSE, code |-> 400]
    ELSE IF user.role \in {"client", "trainer"}
         THEN [inst |-> cancel(b, user.role, reason).inst, saved |-> TRUE, code |-> 200]
    ELSE [inst |-> b, saved |-> FALSE, code |-> 200]

AdminReason(reason) == "[ADMIN] " \o reason

\* The admin cancel without its test for an already cancelled booking.
admin_cancelAlways(b, reason) ==
    [inst |-> [b EXCEPT !.status = "cancelled_by_trainer",
                        !.cancellation_reason = AdminReason(reason),
                        !.cancelled_at = now],
     saved |-> TRUE, code |-> 200]

\* AdminBookingCancelView.patch after Booking.objects.get.
admin_cancel(b, reason) ==
    IF b.status \in {"cancelled_by_client", "cancelled_by_trainer"}
    THEN [inst |-> b, saved |-> FALSE, code |-> 400]
    ELSE [inst |-> [b EXCEPT !.status = "cancelled_by_trainer",
                             !.cancellation_reason = AdminReason(reason),
                             !.cancelled_at = now],
          saved |-> TRUE, code |-> 200]

UpdateInputs ==
    [action : {"none", "confirm", "complete", "no_show"},
     trainer_notes : {None, 1}, client_notes : {None, 1}]

Reasons == {"", "sick"}
AdminReasons == {"Cancelled by admin", "sick"}

\* The first statement of a handler that addresses one booking: the SELECT
\* that loads it.  A missing or foreign id answers 404, a role without a
\* queryset 403.
LoadBooking(p, kind, user, id, data) ==
    /\ pc[p] = "idle"
    /\ ops < MaxOps
    /\ ops' = ops + 1
    /\ IF kind # "admin_cancel" /\ user.role \notin {"client", "trainer"} THEN
          /\ result' = [result EXCEPT ![p] = Response(403, "permission_denied")]
          /\ UNCHANGED <<pc, req, obj>>
       ELSE IF kind = "admin_cancel" /\ user.role # "admin" THEN
          /\ result' = [result EXCEPT ![p] = Response(403, "permission_denied")]
          /\ UNCHANGED <<pc, req, obj>>
       ELSE IF \/ id \notin Ids
               \/ ~Visible(p, id)
               \/ (kind # "admin_cancel" /\ ~InQueryset(user, db[id])) THEN
          /\ result' = [result EXCEPT ![p] = Response(404, "not_found")]
          /\ UNCHANGED <<pc, req, obj>>
       ELSE
          /\ obj' = [obj EXCEPT ![p] = db[id]]
          /\ req' = [req EXCEPT ![p] = [kind |-> kind, user |-> user, data |-> data]]
          /\ pc' = [pc EXCEPT ![p] = kind]
          /\ result' = [result EXCEPT ![p] = NoResult]
    /\ UNCHANGED <<db, txInsert, held, conflict, now, outbox, mailer, payments, reviews>>

\* PATCH /bookings/{id}/
BeginUpdate(p, user, id, data) == LoadBooking(p, "update", user, id, data)

\* DELETE /bookings/{id}/
BeginDestroy(p, user, id, reason) == LoadBooking(p, "destroy", user, id, reason)

\* PATCH /admin/bookings/{id}/cancel/
BeginAdminCancel(p, user, id, reason) == LoadBooking(p, "admin_cancel", user, id, reason)

\* What a response answers: the handler and, for a PATCH, its action.
RequestOf(r) == IF r.kind = "update" THEN <<r.kind, r.data.action>> ELSE <<r.kind>>

\* The rest of a handler with created_at stamped on every save (auto_now).
FinishStampingCreated(p, out, code) ==
    /\ IF out.saved
       THEN /\ ~LockedByOther(p, obj[p].id)
            /\ db' = [db EXCEPT ![obj[p].id] = [SaveFields(out.inst) EXCEPT !.created_at = now]]
       ELSE db' = db
    /\ result' = [result EXCEPT ![p] =
                    [status |-> code, error |-> "none", detail |-> <<out.inst.status>>,
                     request |-> RequestOf(req[p])]]
    /\ pc' = [pc EXCEPT ![p] = "idle"]
    /\ req' = [req EXCEPT ![p] = NoReq]
    /\ obj' = [obj EXCEPT ![p] = NoObj]
    /\ UNCHANGED <<txInsert, held, conflict, now, ops, outbox, mailer, payments, reviews>>

\* The rest of a handler: the in-memory work on the loaded instance and, when
\* the model method calls save(), the UPDATE of every column of the row, which
\* waits while another transaction holds the row's lock.
Finish(p, out, code) ==
    /\ IF out.saved
       THEN /\ ~LockedByOther(p, obj[p].id)
            /\ db' = [db EXCEPT ![obj[p].id] = SaveFields(out.inst)]
       ELSE db' = db
    /\ result' = [result EXCEPT ![p] =
                    [status |-> code, error |-> "none", detail |-> <<out.inst.status>>,
                     request |-> RequestOf(req[p])]]
    /\ pc' = [pc EXCEPT ![p] = "idle"]
    /\ req' = [req EXCEPT ![p] = NoReq]
    /\ obj' = [obj EXCEPT ![p] = NoObj]
    /\ UNCHANGED <<txInsert, held, conflict, now, ops, outbox, mailer, payments, reviews>>

ApplyUpdate(p) ==
    /\ pc[p] = "update"
    /\ Finish(p, update(obj[p], req[p].user, req[p].data), 200)

\* destroy() that cancels before it tests can_cancel().
ApplyDestroyCancellingFirst(p) ==
    /\ pc[p] = "destroy"
    /\ LET out == destroy(obj[p], req[p].user, req[p].data)
       IN  IF out.code = 400
           THEN /\ result' = [result EXCEPT ![p] = Response(400, "cannot_cancel")]
                /\ db' = [db EXCEPT ![obj[p].id] =
                            SaveFields(cancel(obj[p], req[p].user.role, req[p].data).inst)]
                /\ pc' = [pc EXCEPT ![p] = "idle"]
                /\ req' = [req EXCEPT ![p] = NoReq]
                /\ obj' = [obj EXCEPT ![p] = NoObj]
                /\ UNCHANGED <<txInsert, held, conflict, now, ops, outbox, mailer, payments, reviews>>
           ELSE Finish(p, out, 200)

ApplyDestroy(p) ==
    /\ pc[p] = "destroy"
    /\ LET out == destroy(obj[p], req[p].user, req[p].data)
       IN  IF out.code = 400
           THEN /\ result' = [result EXCEPT ![p] = Response(400, "cannot_cancel")]
                /\ pc' = [pc EXCEPT ![p] = "idle"]
                /\ req' = [req EXCEPT ![p] = NoReq]
                /\ obj' = [obj EXCEPT ![p] = NoObj]
                /\ UNCHANGED <<db, txInsert, held, conflict, now, ops, outbox, mailer, payments, reviews>>
           ELSE Finish(p, out, 200)

ApplyAdminCancel(p) ==
    /\ pc[p] = "admin_cancel"
    /\ LET out == admin_cancel(obj[p], req[p].data)
       IN  IF out.code = 400
           THEN /\ result' = [result EXCEPT ![p] = Response(400, "already_cancelled")]
                /\ pc' = [pc EXCEPT ![p] = "idle"]
                /\ req' = [req EXCEPT ![p] = NoReq]
                /\ obj' = [obj EXCEPT ![p] = NoObj]
                /\ UNCHANGED <<db, txInsert, held, conflict, now, ops, outbox, mailer, payments, reviews>>
           ELSE Finish(p, out, 200)

\* ------------------------------------------------------------- payments
mark_paid(b) == [inst |-> [b EXCEPT !.payment_status = "paid"], saved |-> TRUE]

mark_payment_failed(b) == [inst |-> [b EXCEPT !.payment_status = "failed"], saved |-> TRUE]

\* Payment.objects.create(booking=booking, amount=booking.total_price,
\* status='pending'); refund_amount has default 0.00.  Amounts are in cents.
NewPayment(b) ==
    [booking |-> b.id, status |-> "pending", amount |-> b.total_price, refund_amount |-> 0]

\* The Payment row of booking id, as a set with at most one element.
PaymentOf(id) == {pm \in payments : pm.booking = id}

\* What Stripe answers: whether a retrieved PaymentIntent is in a state the view
\* reuses, and whether PaymentIntent.create goes through.
StripeAnswers == [reusable : BOOLEAN, created : BOOLEAN]

\* POST /payments/create-payment-intent/: the serializer's validate_booking_id,
\* a plain read of the booking.
BeginPaymentIntent(p, user, id) ==
    /\ pc[p] = "idle"
    /\ ops < MaxOps
    /\ ops' = ops + 1
    /\ IF id \notin Ids \/ ~Visible(p, id) THEN
          /\ result' = [result EXCEPT ![p] = Response(400, "booking_not_found")]
          /\ UNCHANGED <<pc, req>>
       ELSE IF db[id].payment_status = "paid" THEN
          /\ result' = [result EXCEPT ![p] = Response(400, "already_paid")]
          /\ UNCHANGED <<pc, req>>
       ELSE IF db[id].status \in {"cancelled_by_client", "cancelled_by_trainer"} THEN
          /\ result' = [result EXCEPT ![p] = Response(400, "cancelled_booking")]
          /\ UNCHANGED <<pc, req>>
       ELSE
          /\ pc' = [pc EXCEPT ![p] = "intent"]
          /\ req' = [req EXCEPT ![p] = [kind |-> "intent", user |-> user, data |-> id]]
          /\ result' = [result EXCEPT ![p] = NoResult]
    /\ UNCHANGED <<db, txInsert, held, obj, conflict, now, outbox, mailer, payments, reviews>>

\* Inside transaction.atomic(): Booking.objects.select_for_update().get(id)
\* waits for the row's lock, takes it and loads the row.
LockBooking(p) ==
    /\ pc[p] = "intent"
    /\ ~LockedByOther(p, req[p].data)
    /\ held' = [held EXCEPT ![p] = {req[p].data}]
    /\ obj' = [obj EXCEPT ![p] = db[req[p].data]]
    /\ pc' = [pc EXCEPT ![p] = "pay"]
    /\ UNCHANGED <<db, txInsert, req, conflict, result, now, ops, outbox, mailer, payments, reviews>>

\* The payment intent's exit with the row lock left behind when Stripe raised.
FinishPaymentIntentHoldingLock(p, stripe) ==
    /\ pc[p] = "pay"
    /\ LET b == obj[p]
           failed == PaymentOf(b.id) = {} /\ ~stripe.created
       IN  /\ IF failed
              THEN /\ result' = [result EXCEPT ![p] = Response(400, "stripe_error")]
                   /\ UNCHANGED <<db, payments, held>>
              ELSE /\ payments' = (payments \ PaymentOf(b.id))
                                    \cup {NewPayment(b)}
                   /\ db' = [db EXCEPT ![b.id] =
                               SaveFields([b EXCEPT !.payment_status = "pending"])]
                   /\ result' = [result EXCEPT ![p] = Response(201, "none")]
                   /\ held' = [held EXCEPT ![p] = {}]
    /\ pc' = [pc EXCEPT ![p] = "idle"]
    /\ req' = [req EXCEPT ![p] = NoReq]
    /\ obj' = [obj EXCEPT ![p] = NoObj]
    /\ UNCHANGED <<txInsert, conflict, now, ops, outbox, mailer, reviews>>

\* The rest of the atomic block and its exit: the client check, the reuse or
\* deletion of an existing payment, PaymentIntent.create, the Payment row and
\* booking.payment_status = 'pending' with booking.save(); then COMMIT, or
\* ROLLBACK when Stripe raised, and the locks are released.
FinishPaymentIntent(p, stripe) ==
    /\ pc[p] = "pay"
    /\ LET b == obj[p]
           user == req[p].user
           respond(code, err) ==
               /\ result' = [result EXCEPT ![p] =
                               [status |-> code, error |-> err, detail |-> <<b.payment_status>>,
                                request |-> RequestOf(req[p])]]
               /\ UNCHANGED <<db, payments>>
       IN  IF ~(user.role = "client" /\ b.client = user.id)
           THEN respond(403, "not_your_booking")
           ELSE IF PaymentOf(b.id) # {} /\ stripe.reusable
           THEN respond(200, "none")
           ELSE IF ~stripe.created
           THEN respond(400, "stripe_error")
           ELSE /\ payments' = (payments \ PaymentOf(b.id))
                                 \cup {NewPayment(b)}
                /\ db' = [db EXCEPT ![b.id] = SaveFields([b EXCEPT !.payment_status = "pending"])]
                /\ result' = [result EXCEPT ![p] =
                                [status |-> 201, error |-> "none", detail |-> <<"pending">>,
                                 request |-> RequestOf(req[p])]]
    /\ held' = [held EXCEPT ![p] = {}]
    /\ pc' = [pc EXCEPT ![p] = "idle"]
    /\ req' = [req EXCEPT ![p] = NoReq]
    /\ obj' = [obj EXCEPT ![p] = NoObj]
    /\ UNCHANGED <<txInsert, conflict, now, ops, outbox, mailer, reviews>>

WebhookEvents == {"payment_intent.succeeded", "payment_intent.payment_failed"}

\* stripe_webhook for the payment of booking id: handle_payment_succeeded or
\* handle_payment_failed gets the Payment, saves its new status and loads
\* payment.booking.  An event without a Payment row is logged and answered 200.
BeginWebhook(p, event, id) ==
    /\ pc[p] = "idle"
    /\ ops < MaxOps
    /\ ops' = ops + 1
    /\ IF PaymentOf(id) = {} THEN
          /\ result' = [result EXCEPT ![p] = Response(200, "payment_not_found")]
          /\ UNCHANGED <<pc, req, obj, payments>>
       ELSE
          /\ payments' = (payments \ PaymentOf(id))
                           \cup {[pm EXCEPT !.status =
                                     IF event = "payment_intent.succeeded"
                                     THEN "succeeded" ELSE "failed"]
                                 : pm \in PaymentOf(id)}
          /\ obj' = [obj EXCEPT ![p] = db[id]]
          /\ req' = [req EXCEPT ![p] = [kind |-> "webhook", data |-> event]]
          /\ pc' = [pc EXCEPT ![p] = "webhook"]
          /\ result' = [result EXCEPT ![p] = NoResult]
    /\ UNCHANGED <<db, txInsert, held, conflict, now, outbox, mailer, reviews>>

\* payment.booking.mark_paid() or mark_payment_failed() on the loaded booking.
ApplyWebhook(p) ==
    /\ pc[p] = "webhook"
    /\ Finish(p, IF req[p].data = "payment_intent.succeeded"
                 THEN mark_paid(obj[p]) ELSE mark_payment_failed(obj[p]), 200)

\* --------------------------------------------------------------- refunds
\* Row locks of the payments table are kept in held next to the booking row
\* locks, told apart by their sign.
PaymentLock(id) == 0 - id

is_refundable(pm) == pm.status = "succeeded" /\ pm.refund_amount < pm.amount

\* The refundable amount taken to be the whole payment.
get_refundable_amountWhole(pm) == pm.amount

get_refundable_amount(pm) == pm.amount - pm.refund_amount

\* Payment.process_refund: ValueError for a payment that is not refundable or
\* an amount above what is left; otherwise refund_amount grows, the status
\* becomes refunded or partially_refunded and the payment is saved.
process_refund(pm, refund_amount) ==
    IF ~is_refundable(pm) THEN
        [inst |-> pm, saved |-> FALSE, error |-> "not_refundable"]
    ELSE IF refund_amount > get_refundable_amount(pm) THEN
        [inst |-> pm, saved |-> FALSE, error |-> "exceeds_refundable"]
    ELSE
        LET total == pm.refund_amount + refund_amount
        IN  [inst |-> [pm EXCEPT !.refund_amount = total,
                                 !.status = IF total >= pm.amount THEN "refunded"
                                            ELSE "partially_refunded"],
             saved |-> TRUE, error |-> "none"]

\* POST /payments/<id>/refund/: RefundPaymentSerializer's validate_amount
\* refuses an amount that is not above zero.
BeginRefund(p, user, id, amount) ==
    /\ pc[p] = "idle"
    /\ ops < MaxOps
    /\ ops' = ops + 1
    /\ IF amount <= 0 THEN
          /\ result' = [result EXCEPT ![p] = Response(400, "amount")]
          /\ UNCHANGED <<pc, req>>
       ELSE
          /\ pc' = [pc EXCEPT ![p] = "refund"]
          /\ req' = [req EXCEPT ![p] = [kind |-> "refund", user |-> user,
                                        data |-> [id |-> id, amount |-> amount]]]
          /\ result' = [result EXCEPT ![p] = NoResult]
    /\ UNCHANGED <<db, txInsert, held, obj, conflict, now, outbox, mailer, payments, reviews>>

\* Payment.objects.select_for_update().get(id=payment_id).  The view opens no
\* transaction itself: with ATOMIC_REQUESTS the request is one and the read
\* waits for the row's lock, takes it and loads the payment; in autocommit the
\* query raises TransactionManagementError, which the view answers with 500.
\* The project's settings decide which; both are modelled.
GetPayment(p, atomic_requests) ==
    /\ pc[p] = "refund"
    /\ LET id == req[p].data.id
           leave(code, err) ==
               /\ result' = [result EXCEPT ![p] = Response(code, err)]
               /\ pc' = [pc EXCEPT ![p] = "idle"]
               /\ req' = [req EXCEPT ![p] = NoReq]
               /\ UNCHANGED <<held, obj>>
       IN  IF ~atomic_requests THEN leave(500, "transaction_management")
           ELSE IF PaymentOf(id) = {} THEN leave(404, "payment_not_found")
           ELSE /\ ~LockedByOther(p, PaymentLock(id))
                /\ held' = [held EXCEPT ![p] = {PaymentLock(id)}]
                /\ \E pm \in PaymentOf(id) : obj' = [obj EXCEPT ![p] = pm]
                /\ pc' = [pc EXCEPT ![p] = "refunding"]
                /\ UNCHANGED <<req, result>>
    /\ UNCHANGED <<db, txInsert, conflict, now, ops, outbox, mailer, payments, reviews>>

\* The rest of the view on the loaded payment: the permission check, the two
\* refundability checks, stripe.Refund.create, payment.process_refund and the
\* booking's payment_status with payment.booking.save(); the request's
\* transaction then ends and releases the row lock.
FinishRefund(p, refunded) ==
    /\ pc[p] = "refunding"
    /\ LET pm == obj[p]
           user == req[p].user
           amount == req[p].data.amount
           b == db[pm.booking]
           done == process_refund(pm, amount)
           respond(code, err) ==
               /\ result' = [result EXCEPT ![p] = Response(code, err)]
               /\ UNCHANGED <<db, payments>>
       IN  IF user.role # "admin"
              /\ ~(user.role = "client" /\ user.id = b.client)
              /\ ~(user.role = "trainer" /\ user.id = b.trainer)
           THEN respond(403, "permission")
           ELSE IF ~is_refundable(pm)
           THEN respond(400, "not_refundable")
           ELSE IF amount > get_refundable_amount(pm)
           THEN respond(400, "exceeds_refundable")
           ELSE IF ~refunded
           THEN respond(400, "stripe_error")
           ELSE IF ~done.saved
           THEN respond(500, done.error)
           ELSE /\ payments' = (payments \ PaymentOf(pm.booking)) \cup {done.inst}
                /\ db' = [db EXCEPT ![b.id] =
                            SaveFields([b EXCEPT !.payment_status =
                                           IF done.inst.status = "refunded"
                                           THEN "refunded" ELSE "paid"])]
                /\ result' = [result EXCEPT ![p] = Response(200, "none")]
    /\ held' = [held EXCEPT ![p] = {}]
    /\ pc' = [pc EXCEPT ![p] = "idle"]
    /\ req' = [req EXCEPT ![p] = NoReq]
    /\ obj' = [obj EXCEPT ![p] = NoObj]
    /\ UNCHANGED <<txInsert, conflict, now, ops, outbox, mailer, reviews>>

\* --------------------------------------------------------------- reviews
\* The Review row of booking id, as a set.
ReviewOf(id) == {r \in reviews : r.booking = id}

\* TrainerProfile.total_reviews as the post_save receiver of Review recomputes
\* it: the number of the trainer's reviews (all are visible).
total_reviews(t) == Cardinality({r \in reviews : r.trainer = t})

\* POST /bookings/reviews/: ReviewCreateSerializer.is_valid (the booking exists
\* and has no review, validate_booking, the rating's bounds) and then
\* perform_create's role check.
BeginReview(p, user, id, rating) ==
    /\ pc[p] = "idle"
    /\ ops < MaxOps
    /\ ops' = ops + 1
    /\ LET refuse(code, err) ==
               /\ result' = [result EXCEPT ![p] = Response(code, err)]
               /\ UNCHANGED <<pc, req, obj>>
       IN  IF id \notin Ids \/ ~Visible(p, id) THEN refuse(400, "does_not_exist")
           ELSE IF ReviewOf(id) # {} THEN refuse(400, "already_reviewed")
           ELSE IF db[id].status # "completed" THEN refuse(400, "not_completed")
           ELSE IF ~(user.role = "client" /\ db[id].client = user.id)
                THEN refuse(400, "not_your_booking")
           ELSE IF rating < 1 \/ rating > 5 THEN refuse(400, "rating")
           ELSE IF user.role # "client" THEN refuse(403, "permission_denied")
           ELSE /\ pc' = [pc EXCEPT ![p] = "review"]
                /\ req' = [req EXCEPT ![p] =
                            [kind |-> "review", user |-> user, data |-> rating]]
                /\ obj' = [obj EXCEPT ![p] = db[id]]
                /\ result' = [result EXCEPT ![p] = NoResult]
    /\ UNCHANGED <<db, txInsert, held, conflict, now, outbox, mailer, payments, reviews>>

\* serializer.save() with no unique constraint on Review.booking.
InsertReviewUnconstrained(p) ==
    /\ pc[p] = "review"
    /\ reviews' = reviews \cup {[id |-> Cardinality(reviews) + 1,
                                 booking |-> obj[p].id,
                                 client |-> obj[p].client,
                                 trainer |-> obj[p].trainer,
                                 rating |-> req[p].data]}
    /\ result' = [result EXCEPT ![p] =
                    [status |-> 201, error |-> "none", detail |-> <<obj[p].id>>]]
    /\ pc' = [pc EXCEPT ![p] = "idle"]
    /\ req' = [req EXCEPT ![p] = NoReq]
    /\ obj' = [obj EXCEPT ![p] = NoObj]
    /\ UNCHANGED <<db, txInsert, held, conflict, now, ops, outbox, mailer, payments>>

\* serializer.save(): the INSERT of the Review with the booking's client and
\* trainer.  The unique constraint on booking refuses a second row, and the
\* IntegrityError leaves the view as a 500.
InsertReview(p) ==
    /\ pc[p] = "review"
    /\ IF ReviewOf(obj[p].id) # {}
       THEN /\ result' = [result EXCEPT ![p] = Response(500, "integrity_error")]
            /\ UNCHANGED reviews
       ELSE /\ reviews' = reviews \cup {[id |-> Cardinality(reviews) + 1,
                                         booking |-> obj[p].id,
                                         client |-> obj[p].client,
                                         trainer |-> obj[p].trainer,
                                         rating |-> req[p].data]}
            /\ result' = [result EXCEPT ![p] =
                            [status |-> 201, error |-> "none", detail |-> <<obj[p].id>>]]
    /\ pc' = [pc EXCEPT ![p] = "idle"]
    /\ req' = [req EXCEPT ![p] = NoReq]
    /\ obj' = [obj EXCEPT ![p] = NoObj]
    /\ UNCHANGED <<db, txInsert, held, conflict, now, ops, outbox, mailer, payments>>

\* The mail backend starts raising on email.send() for a recipient; within one
\* behaviour a recipient whose mail fails keeps failing.
MailerStates == [client : BOOLEAN, trainer : BOOLEAN]

SetMailer(m) ==
    /\ m # mailer
    /\ m.client => mailer.client
    /\ m.trainer => mailer.trainer
    /\ mailer' = m
    /\ UNCHANGED <<db, txInsert, held, pc, req, obj, conflict, result, now, ops,
                   outbox, payments, reviews>>

\* Booking.check_booking_conflict called on its own, in a transaction that ends
\* with the call: the locking query waits for the candidate rows' locks, and the
\* booking returned (None when there is none) is kept in conflict[p] next to
\* the arguments in req[p].
CallCheck(p, trainer, session_date, start_time, end_time, exclude_booking_id) ==
    /\ pc[p] = "idle"
    /\ ops < MaxOps
    /\ ops' = ops + 1
    /\ \A i \in Candidates(p, trainer, session_date, exclude_booking_id) :
          ~LockedByOther(p, i)
    /\ LET found == check_booking_conflict(p, trainer, session_date, start_time,
                                           end_time, exclude_booking_id)
       IN  IF found = {}
           THEN conflict' = [conflict EXCEPT ![p] = None]
           ELSE \E c \in found : conflict' = [conflict EXCEPT ![p] = c]
    /\ req' = [req EXCEPT ![p] =
                [kind |-> "check", trainer |-> trainer, session_date |-> session_date,
                 start_time |-> start_time, end_time |-> end_time,
                 exclude_booking_id |-> exclude_booking_id]]
    /\ UNCHANGED <<db, txInsert, held, pc, obj, result, now, outbox, mailer, payments, reviews>>

\* The wall clock moves on to a later instant.
ClockValues == {DayMinutes, 2 * DayMinutes + 46, 3 * DayMinutes}

TickTo(t) ==
    /\ t > now
    /\ now' = t
    /\ UNCHANGED <<db, txInsert, held, pc, req, obj, conflict, result, ops,
                   outbox, mailer, payments, reviews>>

Tick == \E t \in ClockValues : TickTo(t)

Init ==
    /\ db = <<>>
    /\ txInsert = [p \in Procs |-> None]
    /\ held = [p \in Procs |-> {}]
    /\ pc = [p \in Procs |-> "idle"]
    /\ req = [p \in Procs |-> NoReq]
    /\ obj = [p \in Procs |-> NoObj]
    /\ conflict = [p \in Procs |-> None]
    /\ result = [p \in Procs |-> NoResult]
    /\ now = DayMinutes
    /\ ops = 0
    /\ outbox = <<>>
    /\ mailer = [client |-> TRUE, trainer |-> TRUE]
    /\ payments = {}
    /\ reviews = {}

\* The requests of the general model: one trainer and one client, two
\* overlapping slots two days ahead, and a request for a past date.
SpecInputs ==
    CreateInputs({1}, {2}, {<<15, 30, 15>>, <<15, 45, 30>>})
        \cup CreateInputs({1}, {0}, {<<15, 30, 15>>})

SpecUsers == {[role |-> "client", id |-> 1], [role |-> "trainer", id |-> 1],
              [role |-> "admin", id |-> 1]}

Next ==
    \/ \E p \in Procs :
        \/ \E data \in SpecInputs, user \in SpecUsers : BeginCreate(p, data, user)
        \/ LockedRead(p)
        \/ RaiseConflict(p)
        \/ InsertBooking(p)
        \/ Commit(p)
        \/ \E user \in SpecUsers, id \in BookingIds, data \in UpdateInputs :
              BeginUpdate(p, user, id, data)
        \/ ApplyUpdate(p)
        \/ \E user \in SpecUsers, id \in BookingIds, reason \in Reasons :
              BeginDestroy(p, user, id, reason)
        \/ ApplyDestroy(p)
        \/ \E user \in SpecUsers, id \in BookingIds, reason \in AdminReasons :
              BeginAdminCancel(p, user, id, reason)
        \/ ApplyAdminCancel(p)
    \/ Tick

Spec == Init /\ [][Next]_vars

\* ------------------------------------------------ creation on its own
\* One trainer, date and client; the six slots over 00:00, 00:15, 00:30, 00:45
\* with their true durations.
SlotInputs ==
    CreateInputs({1}, {2}, {<<s, e, e - s>> : s \in {0, 15, 30}, e \in {15, 30, 45}}
                              \ {<<15, 15, 0>>, <<30, 15, -15>>, <<30, 30, 0>>})

NextSlots ==
    \E p \in Procs :
        \/ \E data \in SlotInputs : BeginCreate(p, data, [role |-> "client", id |-> 1])
        \/ LockedRead(p)
        \/ RaiseConflict(p)
        \/ InsertBooking(p)
        \/ Commit(p)

SpecSlots == Init /\ [][NextSlots]_vars

\* Requests for the slot 00:15-00:30 and its reverse, valid or not: every
\* trainer id, a past and a future date, durations that match the slot or not,
\* sent from a client or a trainer account.
FormInputs ==
    CreateInputs(RequestTrainers, {0, 2},
                 {<<s[1], s[2], m>> : s \in {<<15, 30>>, <<30, 15>>}, m \in {14, 15, 30}})

FormUsers == {[role |-> "client", id |-> 1], [role |-> "trainer", id |-> 1]}

NextForm ==
    \E p \in Procs :
        \/ \E data \in FormInputs, user \in FormUsers : BeginCreate(p, data, user)
        \/ LockedRead(p)
        \/ RaiseConflict(p)
        \/ InsertBooking(p)
        \/ Commit(p)

SpecForm == Init /\ [][NextForm]_vars

\* Requests with each fault validation rejects, alone and combined, beside the
\* valid request for 00:15-00:30: a past date, a reversed and an empty range, an
\* unpublished and a missing trainer.
RejectInputs ==
    CreateInputs({1, 3, 4}, {0, 2}, {<<15, 30, 15>>, <<30, 15, 15>>, <<15, 15, 15>>})

NextReject ==
    \E p \in Procs :
        \/ \E data \in RejectInputs, user \in FormUsers : BeginCreate(p, data, user)
        \/ LockedRead(p)
        \/ RaiseConflict(p)
        \/ InsertBooking(p)
        \/ Commit(p)

SpecReject == Init /\ [][NextReject]_vars

\* Creation beside cancellation and the trainer's actions: one client and one
\* trainer, the slot 00:15-00:30 two days ahead and a longer one over it.
RebookInputs == CreateInputs({1}, {2}, {<<15, 30, 15>>, <<15, 45, 30>>})

RebookUsers == {[role |-> "client", id |-> 1], [role |-> "trainer", id |-> 1]}

TrainerActions ==
    {[action |-> a, trainer_notes |-> None, client_notes |-> None] :
        a \in {"confirm", "complete", "no_show"}}

NextRebook ==
    \/ \E p \in Procs :
        \/ \E data \in RebookInputs : BeginCreate(p, data, [role |-> "client", id |-> 1])
        \/ LockedRead(p)
        \/ RaiseConflict(p)
        \/ InsertBooking(p)
        \/ Commit(p)
        \/ \E id \in BookingIds, data \in TrainerActions :
              BeginUpdate(p, [role |-> "trainer", id |-> 1], id, data)
        \/ ApplyUpdate(p)
        \/ \E user \in RebookUsers, id \in BookingIds : BeginDestroy(p, user, id, "sick")
        \/ ApplyDestroy(p)
    \/ Tick

SpecRebook == Init /\ [][NextRebook]_vars

\* NumProcs clients each send one create request for one trainer and date,
\* with time ranges that all contain 00:15-00:30.
RaceInputs ==
    CreateInputs({1}, {2}, {<<15, 30, 15>>, <<0, 30, 30>>, <<15, 45, 30>>, <<0, 45, 45>>})

NextRace ==
    \E p \in Procs :
        \/ /\ result[p] = NoResult
           /\ \E data \in RaceInputs, c \in Clients :
                 BeginCreate(p, data, [role |-> "client", id |-> c])
        \/ LockedRead(p)
        \/ RaiseConflict(p)
        \/ InsertBooking(p)
        \/ Commit(p)

SpecRace == Init /\ [][NextRace]_vars

\* ------------------------------------------------ one booking's lifecycle
\* One client books trainer 1 for 00:15-00:30 two days ahead; the trainer then
\* confirms, completes or marks a no-show, and the client cancels.  The clock
\* stops at the edge of the cancellation window, at the session's end and one
\* minute after it.
LifeInputs == CreateInputs({1}, {2}, {<<15, 30, 15>>})

LifeClock == {DayMinutes + 15, 2 * DayMinutes + 30, 2 * DayMinutes + 31}

NextLife ==
    \/ \E p \in Procs :
        \/ \E data \in LifeInputs : BeginCreate(p, data, [role |-> "client", id |-> 1])
        \/ LockedRead(p)
        \/ RaiseConflict(p)
        \/ InsertBooking(p)
        \/ Commit(p)
        \/ \E id \in BookingIds, data \in TrainerActions :
              BeginUpdate(p, [role |-> "trainer", id |-> 1], id, data)
        \/ ApplyUpdate(p)
        \/ \E id \in BookingIds : BeginDestroy(p, [role |-> "client", id |-> 1], id, "sick")
        \/ ApplyDestroy(p)
    \/ \E t \in LifeClock : TickTo(t)

SpecLife == Init /\ [][NextLife]_vars

\* ------------------------------------------------- the price save() computes
\* Booking.save() on an instance that has no row yet, for hourly rates and
\* durations drawn from PriceRates and PriceDurations and a total_price that is
\* unset, 0.00 or given.  total_price is a NOT NULL column: an instance whose
\* price is still unset after save()'s computation is refused by the database.
PriceRates == {0, 1, 2, 3, 1010, 2090, 5050, 7500, 999999}

PriceDurations == {0, 15, 21, 30, 45, 60, 90, 240}

GivenPrices == {NoPrice, 0, 500}

PriceInstances ==
    {[id |-> None, trainer |-> 1, client |-> 1, session_date |-> 2,
      start_time |-> 15, end_time |-> 30, duration_minutes |-> d,
      hourly_rate |-> r, total_price |-> t, status |-> "pending",
      payment_status |-> "unpaid", client_notes |-> 0, trainer_notes |-> 0,
      cancellation_reason |-> "", cancelled_at |-> NoTime, created_at |-> DayMinutes] :
        r \in PriceRates, d \in PriceDurations, t \in GivenPrices}

SaveNew(p) ==
    /\ pc[p] = "new"
    /\ LET b == SaveFields([obj[p] EXCEPT !.id = Len(db) + 1])
       IN  IF b.total_price = NoPrice
           THEN /\ result' = [result EXCEPT ![p] = Response(500, "integrity_error")]
                /\ UNCHANGED <<db, outbox>>
           ELSE /\ db' = Append(db, b)
                /\ outbox' = Append(outbox, send_booking_emails(TRUE, FALSE))
                /\ result' = [result EXCEPT ![p] =
                                [status |-> 201, error |-> "none", detail |-> <<b.id>>]]
    /\ pc' = [pc EXCEPT ![p] = "idle"]
    /\ obj' = [obj EXCEPT ![p] = NoObj]
    /\ UNCHANGED <<txInsert, held, req, conflict, now, ops, mailer, payments, reviews>>

InitPrice ==
    /\ db = <<>>
    /\ txInsert = [p \in Procs |-> None]
    /\ held = [p \in Procs |-> {}]
    /\ pc = [p \in Procs |-> IF p = 1 THEN "new" ELSE "idle"]
    /\ req = [p \in Procs |-> NoReq]
    /\ \E b \in PriceInstances : obj = [p \in Procs |-> IF p = 1 THEN b ELSE NoObj]
    /\ conflict = [p \in Procs |-> None]
    /\ result = [p \in Procs |-> NoResult]
    /\ now = DayMinutes
    /\ ops = 0
    /\ outbox = <<>>
    /\ mailer = [client |-> TRUE, trainer |-> TRUE]
    /\ payments = {}
    /\ reviews = {}

NextPrice == \E p \in Procs : SaveNew(p)

SpecPrice == InitPrice /\ [][NextPrice]_vars

\* --------------------------------------------- lifecycle next to payments
\* A client books trainer 1 (75.00 an hour) or trainer 2 (0.01 an hour, a
\* quarter of an hour of which is priced 0.00); the first booking is then
\* confirmed or annotated by its trainer, cancelled by the client, and paid for
\* through a payment intent and Stripe's webhook events; after the session's
\* end the trainer completes it or marks a no-show.
PayInputs == CreateInputs({1, 2}, {2}, {<<15, 30, 15>>})

PayUpdates ==
    TrainerActions \cup {[action |-> "none", trainer_notes |-> 1, client_notes |-> None]}

\* One minute after the session's end.
PayClock == {2 * DayMinutes + 31}

NextPay ==
    \/ \E p \in Procs :
        \/ \E data \in PayInputs : BeginCreate(p, data, [role |-> "client", id |-> 1])
        \/ LockedRead(p)
        \/ RaiseConflict(p)
        \/ InsertBooking(p)
        \/ Commit(p)
        \/ \E t \in PublishedTrainers, data \in PayUpdates :
              BeginUpdate(p, [role |-> "trainer", id |-> t], 1, data)
        \/ ApplyUpdate(p)
        \/ BeginDestroy(p, [role |-> "client", id |-> 1], 1, "sick")
        \/ ApplyDestroy(p)
        \/ BeginPaymentIntent(p, [role |-> "client", id |-> 1], 1)
        \/ LockBooking(p)
        \/ \E stripe \in StripeAnswers : FinishPaymentIntent(p, stripe)
        \/ \E event \in WebhookEvents : BeginWebhook(p, event, 1)
        \/ ApplyWebhook(p)
    \/ \E t \in PayClock : TickTo(t)

SpecPay == Init /\ [][NextPay]_vars

\* ------------------------------------- creation with a failing mail backend
\* A client books trainer 1 while the mail backend fails for either recipient
\* at any moment.
NotifyInputs == CreateInputs({1}, {2}, {<<15, 30, 15>>, <<15, 45, 30>>})

NextNotify ==
    \/ \E p \in Procs :
        \/ \E data \in NotifyInputs : BeginCreate(p, data, [role |-> "client", id |-> 1])
        \/ LockedRead(p)
        \/ RaiseConflict(p)
        \/ InsertBooking(p)
        \/ Commit(p)
    \/ \E m \in MailerStates : SetMailer(m)

SpecNotify == Init /\ [][NextNotify]_vars

\* ------------------------------------------ creates for different calendars
\* One client books trainer 1 for one of two adjacent quarters of an hour, or
\* the first of them with trainer 2 on the same date or with trainer 1 a day
\* later.
ParallelInputs ==
    CreateInputs({1}, {2}, {<<15, 30, 15>>, <<30, 45, 15>>})
        \cup CreateInputs({2}, {2}, {<<15, 30, 15>>})
        \cup CreateInputs({1}, {3}, {<<15, 30, 15>>})

NextParallel ==
    \E p \in Procs :
        \/ \E data \in ParallelInputs : BeginCreate(p, data, [role |-> "client", id |-> 1])
        \/ LockedRead(p)
        \/ RaiseConflict(p)
        \/ InsertBooking(p)
        \/ Commit(p)

SpecParallel == Init /\ [][NextParallel]_vars

\* ------------------------------------------ the conflict check on its own
\* A client books 00:15-00:30 with either trainer on one date or with trainer 1
\* a day later; check_booking_conflict is then asked about either trainer and
\* date, for a range that overlaps that one, excluding no booking or one of the
\* first two.
ConflictInputs ==
    CreateInputs({1, 2}, {2}, {<<15, 30, 15>>}) \cup CreateInputs({1}, {3}, {<<15, 30, 15>>})

CheckRanges == {<<20, 40>>}

ExcludeIds == {None, 1, 2}

NextConflict ==
    \E p \in Procs :
        \/ \E data \in ConflictInputs : BeginCreate(p, data, [role |-> "client", id |-> 1])
        \/ LockedRead(p)
        \/ RaiseConflict(p)
        \/ InsertBooking(p)
        \/ Commit(p)
        \/ \E t \in PublishedTrainers, d \in {2, 3}, r \in CheckRanges, x \in ExcludeIds :
              CallCheck(p, t, d, r[1], r[2], x)

SpecConflict == Init /\ [][NextConflict]_vars

\* ------------------------------------------------ who may act on a booking
\* Client 1 books trainer 1; both clients and both trainers then send the
\* trainer actions for the booking, before and after the session's end.
RoleInputs == CreateInputs({1}, {2}, {<<15, 30, 15>>})

RoleUsers == [role : {"client"}, id : Clients] \cup [role : {"trainer"}, id : PublishedTrainers]

RoleClock == {2 * DayMinutes + 31}

NextRoles ==
    \/ \E p \in Procs :
        \/ \E data \in RoleInputs : BeginCreate(p, data, [role |-> "client", id |-> 1])
        \/ LockedRead(p)
        \/ RaiseConflict(p)
        \/ InsertBooking(p)
        \/ Commit(p)
        \/ \E u \in RoleUsers, data \in TrainerActions : BeginUpdate(p, u, 1, data)
        \/ ApplyUpdate(p)
    \/ \E t \in RoleClock : TickTo(t)

SpecRoles == Init /\ [][NextRoles]_vars

\* ------------------------------------------------- cancelling by either side
\* Client 1 books trainer 1; the trainer confirms, and the client or the
\* trainer cancels with or without a reason.
CancelInputs == CreateInputs({1}, {2}, {<<15, 30, 15>>})

CancelUsers == {[role |-> "client", id |-> 1], [role |-> "trainer", id |-> 1]}

ConfirmAction == {[action |-> "confirm", trainer_notes |-> None, client_notes |-> None]}

NextCancel ==
    \E p \in Procs :
        \/ \E data \in CancelInputs : BeginCreate(p, data, [role |-> "client", id |-> 1])
        \/ LockedRead(p)
        \/ RaiseConflict(p)
        \/ InsertBooking(p)
        \/ Commit(p)
        \/ \E id \in BookingIds, data \in ConfirmAction :
              BeginUpdate(p, [role |-> "trainer", id |-> 1], id, data)
        \/ ApplyUpdate(p)
        \/ \E u \in CancelUsers, id \in BookingIds, reason \in Reasons :
              BeginDestroy(p, u, id, reason)
        \/ ApplyDestroy(p)

SpecCancel == Init /\ [][NextCancel]_vars

\* ---------------------------------------------------- reviewing a session
\* One minute after the end of client 1's session with trainer 1, with the
\* booking confirmed, completed or cancelled by the client the day it was made:
\* the trainer completes it, and the clients and the trainer post reviews with
\* a rating of 5 or 0 for it or for a booking that does not exist.
ReviewedBooking(status) ==
    [id |-> 1, trainer |-> 1, client |-> 1, session_date |-> 2,
     start_time |-> 15, end_time |-> 30, duration_minutes |-> 15,
     hourly_rate |-> TrainerRate(1), total_price |-> TotalPrice(TrainerRate(1), 15),
     status |-> status, payment_status |-> "unpaid",
     client_notes |-> 0, trainer_notes |-> 0,
     cancellation_reason |-> IF status = "cancelled_by_client" THEN "sick" ELSE "",
     cancelled_at |-> IF status = "cancelled_by_client" THEN DayMinutes ELSE NoTime,
     created_at |-> DayMinutes]

ReviewUsers == [role : {"client"}, id : Clients] \cup {[role |-> "trainer", id |-> 1]}

Ratings == {0, 5}

CompleteAction == {[action |-> "complete", trainer_notes |-> None, client_notes |-> None]}

InitReview ==
    /\ \E status \in {"confirmed", "completed", "cancelled_by_client"} :
          db = <<ReviewedBooking(status)>>
    /\ txInsert = [p \in Procs |-> None]
    /\ held = [p \in Procs |-> {}]
    /\ pc = [p \in Procs |-> "idle"]
    /\ req = [p \in Procs |-> NoReq]
    /\ obj = [p \in Procs |-> NoObj]
    /\ conflict = [p \in Procs |-> None]
    /\ result = [p \in Procs |-> NoResult]
    /\ now = 2 * DayMinutes + 31
    /\ ops = 0
    /\ mailer = [client |-> TRUE, trainer |-> TRUE]
    /\ outbox = <<send_booking_emails(TRUE, TRUE) \o <<send_booking_notification_emails(FALSE)>> >>
    /\ payments = {}
    /\ reviews = {}

NextReview ==
    \E p \in Procs :
        \/ \E u \in ReviewUsers, id \in {1, 2}, rating \in Ratings : BeginReview(p, u, id, rating)
        \/ InsertReview(p)
        \/ \E data \in CompleteAction : BeginUpdate(p, [role |-> "trainer", id |-> 1], 1, data)
        \/ ApplyUpdate(p)

SpecReview == InitReview /\ [][NextReview]_vars

\* ------------------------------------------- creates that wait for row locks
\* Trainer 1 has two pending bookings of client 1 on one date, 00:15-00:30 and
\* 00:30-00:45.  The client books 00:20-00:40, which overlaps both, or the free
\* 00:45-01:00, and asks for payment intents for the two bookings; the locking
\* read takes its row locks one at a time.
WaitingBooking(id, start_time) ==
    [ReviewedBooking("pending") EXCEPT !.id = id, !.start_time = start_time,
                                       !.end_time = start_time + 15]

LiveInputs == CreateInputs({1}, {2}, {<<20, 40, 20>>, <<45, 60, 15>>})

InitLive ==
    /\ db = <<WaitingBooking(1, 15), WaitingBooking(2, 30)>>
    /\ txInsert = [p \in Procs |-> None]
    /\ held = [p \in Procs |-> {}]
    /\ pc = [p \in Procs |-> "idle"]
    /\ req = [p \in Procs |-> NoReq]
    /\ obj = [p \in Procs |-> NoObj]
    /\ conflict = [p \in Procs |-> None]
    /\ result = [p \in Procs |-> NoResult]
    /\ now = DayMinutes
    /\ ops = 0
    /\ mailer = [client |-> TRUE, trainer |-> TRUE]
    /\ outbox = [i \in 1..2 |->
                    send_booking_emails(TRUE, TRUE) \o <<send_booking_notification_emails(FALSE)>>]
    /\ payments = {}
    /\ reviews = {}

NextLive ==
    \E p \in Procs :
        \/ \E data \in LiveInputs : BeginCreate(p, data, [role |-> "client", id |-> 1])
        \/ BeginScan(p)
        \/ LockRow(p)
        \/ EndScan(p)
        \/ RaiseConflict(p)
        \/ InsertBooking(p)
        \/ Commit(p)
        \/ \E id \in {1, 2} : BeginPaymentIntent(p, [role |-> "client", id |-> 1], id)
        \/ LockBooking(p)
        \/ \E stripe \in StripeAnswers : FinishPaymentIntent(p, stripe)

\* Every handler that is inside a transaction keeps running: a step that stays
\* possible is taken.
FairLive ==
    \A p \in Procs :
        /\ WF_vars(BeginScan(p))
        /\ WF_vars(LockRow(p))
        /\ WF_vars(EndScan(p))
        /\ WF_vars(RaiseConflict(p))
        /\ WF_vars(InsertBooking(p))
        /\ WF_vars(Commit(p))
        /\ WF_vars(LockBooking(p))
        /\ WF_vars(\E stripe \in StripeAnswers : FinishPaymentIntent(p, stripe))

SpecLive == InitLive /\ [][NextLive]_vars /\ FairLive

\* --------------------------------------------------- the admin's override
\* Client 1 books trainer 1 and cancels; the admin, or the client on the
\* admin's URL, cancels the booking with the default reason or a given one,
\* before or after the cancellation window has closed.
AdminInputs == CreateInputs({1}, {2}, {<<15, 30, 15>>})

AdminUsers == {[role |-> "admin", id |-> 1], [role |-> "client", id |-> 1]}

AdminClock == {DayMinutes + 15}

NextAdmin ==
    \/ \E p \in Procs :
        \/ \E data \in AdminInputs : BeginCreate(p, data, [role |-> "client", id |-> 1])
        \/ LockedRead(p)
        \/ RaiseConflict(p)
        \/ InsertBooking(p)
        \/ Commit(p)
        \/ BeginDestroy(p, [role |-> "client", id |-> 1], 1, "sick")
        \/ ApplyDestroy(p)
        \/ \E u \in AdminUsers, reason \in AdminReasons : BeginAdminCancel(p, u, 1, reason)
        \/ ApplyAdminCancel(p)
    \/ \E t \in AdminClock : TickTo(t)

SpecAdmin == Init /\ [][NextAdmin]_vars

\* ------------------------------------------------------ refunding a payment
\* Client 1's confirmed session with trainer 1 has a payment of 18.75 that is
\* pending or has succeeded.  The admin and the two clients ask for refunds of
\* nothing, 10.00, the whole amount or one cent more, for this payment or one
\* that does not exist, while Stripe's webhook reports the intent again.
PaidPayment(status) ==
    [NewPayment(ReviewedBooking("confirmed")) EXCEPT !.status = status]

RefundUsers == [role : {"client"}, id : Clients] \cup {[role |-> "admin", id |-> 1]}

RefundAmounts == {0, 1000, 1875, 1876}

InitRefund ==
    /\ \E status \in {"pending", "succeeded"} :
          /\ db = <<[ReviewedBooking("confirmed") EXCEPT !.payment_status =
                        IF status = "succeeded" THEN "paid" ELSE "pending"]>>
          /\ payments = {PaidPayment(status)}
    /\ txInsert = [p \in Procs |-> None]
    /\ held = [p \in Procs |-> {}]
    /\ pc = [p \in Procs |-> "idle"]
    /\ req = [p \in Procs |-> NoReq]
    /\ obj = [p \in Procs |-> NoObj]
    /\ conflict = [p \in Procs |-> None]
    /\ result = [p \in Procs |-> NoResult]
    /\ now = DayMinutes + 15
    /\ ops = 0
    /\ mailer = [client |-> TRUE, trainer |-> TRUE]
    /\ outbox = <<send_booking_emails(TRUE, TRUE) \o <<send_booking_notification_emails(FALSE)>> >>
    /\ reviews = {}

NextRefund ==
    \E p \in Procs :
        \/ \E u \in RefundUsers, id \in {1, 2}, amount \in RefundAmounts :
              BeginRefund(p, u, id, amount)
        \/ \E atomic_requests \in BOOLEAN : GetPayment(p, atomic_requests)
        \/ \E refunded \in BOOLEAN : FinishRefund(p, refunded)
        \/ BeginWebhook(p, "payment_intent.succeeded", 1)
        \/ ApplyWebhook(p)

SpecRefund == InitRefund /\ [][NextRefund]_vars

\* ================================================================ claims
Committed(i) == \A q \in Procs : txInsert[q] # i

SameTrainerAndDate(a, b) == a.trainer = b.trainer /\ a.session_date = b.session_date

\* The instants of the half-open range [s, e).
Instants(s, e) == s..(e - 1)

\* C1: in every reachable state no two stored bookings of one trainer on one
\* session_date that are both pending or confirmed occupy a common instant.
NoDoubleBooking ==
    \A i, j \in Ids :
        (/\ i < j /\ Committed(i) /\ Committed(j)
         /\ SameTrainerAndDate(db[i], db[j])
         /\ db[i].status \in ActiveStatuses /\ db[j].status \in ActiveStatuses)
        => Instants(db[i].start_time, db[i].end_time)
             \cap Instants(db[j].start_time, db[j].end_time) = {}

\* C2: when NumProcs concurrent create_booking calls for one trainer and date
\* with mutually overlapping ranges have all returned, exactly one has
\* committed, the others failed with the conflict error, and one row is stored.
RaceOver == \A p \in Procs : pc[p] = "idle" /\ result[p] # NoResult

ExactlyOneWinner ==
    RaceOver =>
        /\ Cardinality({p \in Procs : result[p].status = 201}) = 1
        /\ Cardinality({p \in Procs : result[p].error = "conflict"}) = NumProcs - 1
        /\ Len(db) = 1

\* C3: while one create_booking transaction has done its locked conflict read
\* for a trainer and date and has not yet committed or rolled back, no other
\* transaction has completed a conflict read for the same trainer and date.
InTransaction(p) == pc[p] \in {"insert", "conflict", "commit"}

LockedReadExcludes ==
    \A p, q \in Procs :
        (p # q /\ InTransaction(p) /\ InTransaction(q))
        => ~SameTrainerAndDate(req[p], req[q])

\* C4: the conflict read of a request [s1, e1) reports a conflict iff some
\* active booking [s2, e2) of the trainer on the date has s1 < e2 and e1 > s2;
\* a booking that only shares a boundary instant is never the one reported,
\* and the one reported is such an overlapping active booking.
ReadStep(p) == pc[p] = "create" /\ pc'[p] # "create"

ActiveOn(p) ==
    {i \in Ids : /\ Visible(p, i)
                 /\ SameTrainerAndDate(db[i], req[p])
                 /\ db[i].status \in ActiveStatuses}

OverlapIff ==
    [][\A p \in Procs : ReadStep(p) =>
        /\ (pc'[p] = "conflict") <=>
              \E i \in ActiveOn(p) : /\ req[p].start_time < db[i].end_time
                                     /\ req[p].end_time > db[i].start_time
        /\ (pc'[p] = "conflict") <=> (conflict'[p] # None)
        /\ \A i \in ActiveOn(p) :
              (req[p].start_time = db[i].end_time \/ req[p].end_time = db[i].start_time)
              => conflict'[p] # i
        /\ conflict'[p] # None =>
              /\ conflict'[p] \in ActiveOn(p)
              /\ Instants(req[p].start_time, req[p].end_time)
                   \cap Instants(db[conflict'[p]].start_time, db[conflict'[p]].end_time) # {}
      ]_vars

\* C4 witness: a request that starts exactly when a stored active booking ends
\* has passed the conflict read without a conflict.
AdjacentPassedRead ==
    \E p \in Procs, i \in Ids :
        /\ pc[p] = "insert" /\ Committed(i)
        /\ db[i].status \in ActiveStatuses
        /\ SameTrainerAndDate(db[i], req[p])
        /\ req[p].start_time = db[i].end_time

\* C6: a create_booking that finds a conflict writes nothing in any of its
\* steps and answers with the conflict error whose message carries the start
\* and end time of an overlapping active booking of the trainer on the date.
ParseHM(hm) == hm[1] * MinutesPerHour + hm[2]

ConflictPersistsNothing ==
    [][\A p \in Procs :
        /\ (pc'[p] # pc[p] /\ (pc'[p] = "conflict" \/ pc[p] = "conflict")) =>
              /\ db' = db
              /\ txInsert'[p] = None
        /\ (pc[p] = "conflict" /\ pc'[p] # "conflict") =>
              /\ pc'[p] = "idle"
              /\ result'[p].status = 400
              /\ result'[p].error = "conflict"
              /\ \E i \in Ids :
                    /\ SameTrainerAndDate(db[i], req[p])
                    /\ db[i].status \in ActiveStatuses
                    /\ req[p].start_time < db[i].end_time
                    /\ req[p].end_time > db[i].start_time
                    /\ ParseHM(result'[p].detail[1]) = db[i].start_time
                    /\ ParseHM(result'[p].detail[2]) = db[i].end_time
      ]_vars

\* C6 witness: a create request has been answered with the conflict error.
ConflictAnswered ==
    \E p \in Procs : pc[p] = "idle" /\ result[p].error = "conflict" /\ Len(db) >= 1

\* C7: every row a create_booking inserts has status pending, payment_status
\* unpaid, the trainer's hourly_rate, and a total_price within half a cent of
\* hourly_rate * duration_minutes / 60.
CreatedWithDefaults ==
    [][Len(db') > Len(db) =>
        LET b == db'[Len(db')]
        IN  /\ Len(db') = Len(db) + 1
            /\ b.status = "pending"
            /\ b.payment_status = "unpaid"
            /\ b.hourly_rate = TrainerRate(b.trainer)
            /\ 60 * b.total_price - b.hourly_rate * b.duration_minutes \in -30..30
      ]_vars

\* C7 witness: a committed booking of 30 minutes at 75.00 an hour priced 37.50.
HalfHourBooked ==
    \E i \in Ids :
        /\ Committed(i) /\ db[i].hourly_rate = 7500
        /\ db[i].duration_minutes = 30 /\ db[i].total_price = 3750

\* C8: every stored booking has a duration_minutes within one minute of the
\* minutes between its start_time and end_time.
DurationMatchesRange ==
    \A i \in Ids :
        db[i].duration_minutes - (db[i].end_time - db[i].start_time)
            \in -DurationToleranceMinutes..DurationToleranceMinutes

\* C9: a create request with a past session_date, with start_time >= end_time,
\* or for a trainer that does not exist or is not published is answered 400 in
\* its first step, with no lock taken and no row written; so every request
\* that is inside the transaction is free of these faults.
Invalid(data) ==
    \/ data.session_date < Today
    \/ data.start_time >= data.end_time
    \/ data.trainer \notin PublishedTrainers

Rejected400(p) ==
    /\ pc'[p] = "idle"
    /\ result'[p].status = 400
    /\ result'[p].error \in {"session_date", "end_time", "trainer", "duration_minutes"}
    /\ held' = held
    /\ db' = db

RejectedBeforeLock ==
    [][\A p \in Procs :
        /\ (pc[p] = "idle" /\ ops' # ops /\ ~Rejected400(p)) =>
              \A data \in RejectInputs, user \in FormUsers :
                 ~(Invalid(data) /\ BeginCreate(p, data, user))
        /\ pc'[p] \in {"create", "insert", "conflict", "commit"} =>
              /\ req'[p].session_date * DayMinutes + DayMinutes > now'
              /\ req'[p].start_time < req'[p].end_time
              /\ req'[p].trainer \in PublishedTrainers
      ]_vars

\* C9 witness: a request for a past date has been answered 400 on
\* session_date while the table is still empty.
PastDateRejected ==
    \E p \in Procs :
        pc[p] = "idle" /\ result[p] = Response(400, "session_date") /\ db = <<>>

TerminalIsFinal ==
    [][\A i \in Ids : db[i].status \in TerminalStatuses => db'[i].status = db[i].status]_vars

\* C11: a step changes a booking's stored status to cancelled_by_client or
\* cancelled_by_trainer only when that status was pending or confirmed and the
\* clock stands strictly before the session start minus 24 hours, whichever
\* operation cancels.
CancelOnlyInWindow ==
    [][\A i \in Ids :
        (db[i].status \notin CancelledStatuses /\ db'[i].status \in CancelledStatuses)
        => /\ db[i].status \in ActiveStatuses
           /\ now < get_start_datetime(db[i]) - CancelWindowHours * MinutesPerHour
      ]_vars

\* C12: a handler that applies mark_completed (mark_no_show) to the booking it
\* loaded stores that booking with status completed (no_show) when the loaded
\* status is confirmed and the clock is strictly after the session's end, and
\* writes nothing in every other case; and no step gives a booking the status
\* completed or no_show except such a handler on such a booking.
Applies(p, action) ==
    /\ pc[p] = "update" /\ pc'[p] = "idle"
    /\ req[p].data.action = action /\ req[p].user.role = "trainer"

CompletionGuarded ==
    [][/\ \A p \in Procs : \A a \in {"complete", "no_show"} :
            Applies(p, a) =>
               LET b == obj[p]
                   target == IF a = "complete" THEN "completed" ELSE "no_show"
               IN  IF b.status = "confirmed"
                      /\ now > b.session_date * DayMinutes + b.end_time
                   THEN db' = [db EXCEPT ![b.id] = [b EXCEPT !.status = target]]
                   ELSE db' = db
       /\ \A i \in Ids :
            (db'[i].status \in {"completed", "no_show"} /\ db'[i].status # db[i].status)
            => \E p \in Procs :
                  /\ Applies(p, IF db'[i].status = "completed" THEN "complete" ELSE "no_show")
                  /\ obj[p].id = i /\ obj[p].status = "confirmed"
                  /\ now > get_end_datetime(obj[p])
      ]_vars

\* C12 witness: the trainer's complete request on a confirmed booking whose
\* session is over has been answered with the booking completed, and the
\* stored booking is completed.
CompletedAfterEnd ==
    \E p \in Procs :
        /\ pc[p] = "idle"
        /\ result[p].status = 200
        /\ result[p].request = <<"update", "complete">>
        /\ result[p].detail = <<"completed">>
        /\ db[1].status = "completed"

\* C13: a handler that applies confirm to the booking it loaded stores that
\* booking with status confirmed when the loaded status is pending, and writes
\* no field of any booking when the loaded status is anything else; and no step
\* turns a stored status into confirmed except such a handler on a pending
\* booking.
ConfirmGuarded ==
    [][/\ \A p \in Procs :
            Applies(p, "confirm") =>
               LET b == obj[p]
               IN  IF b.status = "pending"
                   THEN db' = [db EXCEPT ![b.id] = [b EXCEPT !.status = "confirmed"]]
                   ELSE db' = db
       /\ \A i \in Ids :
            (db'[i].status = "confirmed" /\ db[i].status # "confirmed")
            => \E p \in Procs :
                  Applies(p, "confirm") /\ obj[p].id = i /\ obj[p].status = "pending"
      ]_vars

\* C13 witness: the trainer's confirm request on a booking the client had
\* cancelled has been answered, and the stored booking is still cancelled.
ConfirmOnCancelledAnswered ==
    \E p \in Procs :
        /\ pc[p] = "idle"
        /\ result[p].status = 200
        /\ result[p].request = <<"update", "confirm">>
        /\ result[p].detail = <<"cancelled_by_client">>
        /\ db[1].status = "cancelled_by_client"

\* C14: in every state a stored booking has a cancelled_at exactly when its
\* status is cancelled_by_client or cancelled_by_trainer; a step writes
\* cancelled_at or cancellation_reason only together with the change of the
\* status to a cancelled one; and once cancelled_at is written, neither it nor
\* cancellation_reason is changed by any later step.
CancellationWriteOnce ==
    [][/\ \A i \in 1..Len(db') :
            (db'[i].cancelled_at # NoTime) <=> (db'[i].status \in CancelledStatuses)
       /\ \A i \in Ids :
            /\ (\/ db'[i].cancelled_at # db[i].cancelled_at
                \/ db'[i].cancellation_reason # db[i].cancellation_reason)
               => (db[i].status \notin CancelledStatuses
                   /\ db'[i].status \in CancelledStatuses)
            /\ db[i].cancelled_at # NoTime
               => /\ db'[i].cancelled_at = db[i].cancelled_at
                  /\ db'[i].cancellation_reason = db[i].cancellation_reason
      ]_vars

PriceNeverChanges ==
    [][\A i \in Ids : db'[i].total_price = db[i].total_price]_vars

\* A booking priced 0.00 was confirmed and has a payment intent.
FreeBookingSavedAgain ==
    \E i \in Ids :
        /\ db[i].total_price = 0 /\ db[i].hourly_rate = 1
        /\ db[i].status = "confirmed" /\ db[i].payment_status = "pending"

\* C17: a step changes the payment_status of a stored booking only when it is
\* the step of a payment operation (the payment intent's save or the webhook's
\* mark_paid / mark_payment_failed); confirm, cancel, complete, no-show and the
\* notes update leave it as it is, also next to a running payment operation.
PaymentStatusOnlyByPayments ==
    [][\A i \in Ids :
        db'[i].payment_status # db[i].payment_status
        => \E p \in Procs : pc[p] \in {"pay", "webhook"} /\ pc'[p] = "idle"]_vars

\* C18: a create_booking call that has inserted its row commits it and answers
\* 201 whatever the notification dispatch did: when both emails fail, the row
\* is stored and visible afterwards and the response is the success response.
CreationSurvivesMailFailure ==
    [][\A p \in Procs :
        (pc[p] = "commit" /\ pc'[p] = "idle")
        => /\ result'[p].status = 201
           /\ result'[p].detail = <<txInsert[p]>>
           /\ txInsert[p] \in DOMAIN db'
           /\ db'[txInsert[p]] = db[txInsert[p]]
           /\ \A q \in Procs : txInsert'[q] # txInsert[p]]_vars

\* A create answered 201 for a booking none of whose emails went out.
CreatedWithoutAnyEmail ==
    \E p \in Procs, i \in Ids :
        /\ result[p].status = 201 /\ result[p].detail = <<i>>
        /\ outbox[i] # <<>>
        /\ \A k \in DOMAIN outbox[i] : ~outbox[i][k].client_sent /\ ~outbox[i][k].trainer_sent
        /\ \A q \in Procs : txInsert[q] # i

\* C19: every booking-created notification was dispatched after the
\* transaction that inserted its booking had committed: no dispatch is made
\* from inside the creating transaction, and none for a booking whose insert
\* was rolled back.
DispatchedAfterCommit ==
    /\ \A i \in DOMAIN outbox :
          \A k \in DOMAIN outbox[i] : ~outbox[i][k].in_transaction
    /\ DOMAIN outbox = DOMAIN db

\* C20: a create_booking call whose concurrent create_booking calls are all for
\* another trainer or another date is never made to wait: its locking read, its
\* insert and its commit are each enabled whenever it stands before them, and
\* the locks it holds are on bookings of its own trainer and date only.
ParallelCreatesProceed ==
    \A p \in Procs :
        /\ \A i \in held[p] : req[p].kind = "create" /\ SameTrainerAndDate(db[i], req[p])
        /\ (/\ req[p].kind = "create"
            /\ \A q \in Procs \ {p} :
                  req[q].kind = "create" => ~SameTrainerAndDate(req[p], req[q]))
           => /\ pc[p] = "create" => ENABLED LockedRead(p)
              /\ pc[p] = "insert" => ENABLED InsertBooking(p)
              /\ pc[p] = "commit" => ENABLED Commit(p)

\* Two creates for different trainers stand before their commits at once, one
\* of them holding the lock of an earlier booking, while a third booking of
\* the other trainer is stored.
CreatesSideBySide ==
    \E p, q \in Procs :
        /\ p # q /\ pc[p] = "commit" /\ pc[q] = "commit"
        /\ ~SameTrainerAndDate(req[p], req[q])
        /\ held[q] # {}

\* C21: no step changes the trainer, client, hourly_rate or created_at of a
\* stored booking: confirm, cancel, mark_completed, mark_no_show, the notes
\* update and the payment operations write them back as they were.
CreationFieldsFrozen ==
    [][\A i \in Ids :
        /\ db'[i].trainer = db[i].trainer
        /\ db'[i].client = db[i].client
        /\ db'[i].hourly_rate = db[i].hourly_rate
        /\ db'[i].created_at = db[i].created_at]_vars

\* A booking created two days before was confirmed and then completed.
CompletedLongAfterCreation ==
    \E i \in Ids :
        /\ db[i].status = "completed"
        /\ db[i].created_at < now - DayMinutes

\* C22: the booking check_booking_conflict returns is one of the requested
\* trainer on the requested session_date, and its id is not exclude_booking_id:
\* an overlapping active booking of another trainer or on another date, and
\* the excluded booking itself, are never returned.
ConflictOnlyWithinCalendar ==
    \A p \in Procs :
        (req[p].kind = "check" /\ conflict[p] # None)
        => /\ conflict[p] \in Ids
           /\ db[conflict[p]].trainer = req[p].trainer
           /\ db[conflict[p]].session_date = req[p].session_date
           /\ conflict[p] # req[p].exclude_booking_id

\* The check excluded the one overlapping active booking of the trainer on the
\* date and found nothing, while another trainer has an overlapping booking on
\* that date.
ExcludedBookingPassed ==
    \E p \in Procs, i, j \in Ids :
        /\ req[p].kind = "check" /\ conflict[p] = None
        /\ req[p].exclude_booking_id = i
        /\ db[i].trainer = req[p].trainer /\ db[i].session_date = req[p].session_date
        /\ db[i].status \in ActiveStatuses
        /\ Overlaps(req[p].start_time, req[p].end_time, db[i].start_time, db[i].end_time)
        /\ db[j].trainer # req[p].trainer /\ db[j].session_date = req[p].session_date
        /\ Overlaps(req[p].start_time, req[p].end_time, db[j].start_time, db[j].end_time)

\* C23: a DELETE on a booking that cannot be cancelled (it is not pending or
\* confirmed, or the session starts in 24 hours or less) is answered with the
\* 400 error, and a DELETE answered with that error writes nothing: status,
\* cancellation_reason and cancelled_at of every booking stay as stored.
RejectedCancelWritesNothing ==
    [][\A p \in Procs :
        (pc[p] = "destroy" /\ pc'[p] = "idle")
        => /\ (\/ obj[p].status \notin {"pending", "confirmed"}
               \/ now >= get_start_datetime(obj[p]) - CancelWindowHours * MinutesPerHour)
              => result'[p] = Response(400, "cannot_cancel")
           /\ result'[p].status = 400
              => \A i \in Ids :
                    /\ db'[i].status = db[i].status
                    /\ db'[i].cancellation_reason = db[i].cancellation_reason
                    /\ db'[i].cancelled_at = db[i].cancelled_at]_vars

\* A DELETE was refused exactly 24 hours before the start of a booking that
\* is still active.
LateCancelRefused ==
    \E p \in Procs, i \in Ids :
        /\ result[p] = Response(400, "cannot_cancel")
        /\ db[i].status \in ActiveStatuses /\ db[i].cancelled_at = NoTime
        /\ now = get_start_datetime(db[i]) - CancelWindowHours * MinutesPerHour

\* C24: a PATCH with action confirm, complete or no_show changes the status of
\* the booking it loaded only when it comes from that booking's trainer; sent
\* by the booking's client it writes nothing at all and answers with the
\* status as it was, and no other client or trainer gets to the booking.
OnlyTrainerActs ==
    [][\A p \in Procs :
        (pc[p] = "update" /\ pc'[p] = "idle")
        => /\ req[p].user.role = "trainer" => req[p].user.id = obj[p].trainer
           /\ req[p].user.role = "client" => req[p].user.id = obj[p].client
           /\ result'[p].detail # <<obj[p].status>> => req[p].user.role = "trainer"
           /\ req[p].user.role = "client"
              => db' = db /\ result'[p].detail = <<obj[p].status>>]_vars

\* The client's confirm was answered with the booking still pending.
ClientConfirmIgnored ==
    \E p \in Procs :
        /\ result[p].status = 200
        /\ result[p].detail = <<"pending">>
        /\ "request" \in DOMAIN result[p]
        /\ result[p].request = <<"update", "confirm">>
        /\ 1 \in Ids /\ db[1].status = "pending"

\* C25: a DELETE that is answered 200 stores status cancelled_by_client when
\* the client sent it and cancelled_by_trainer when the trainer sent it,
\* together with the reason of the request and the time of the call; the
\* stored status is then neither pending nor confirmed.
CancelRecordsActor ==
    [][\A p \in Procs :
        (pc[p] = "destroy" /\ pc'[p] = "idle" /\ result'[p].status = 200)
        => LET b == db'[obj[p].id]
           IN  /\ req[p].user.role = "client" => b.status = "cancelled_by_client"
               /\ req[p].user.role = "trainer" => b.status = "cancelled_by_trainer"
               /\ b.status \notin ActiveStatuses
               /\ b.cancellation_reason = req[p].data
               /\ b.cancelled_at = now]_vars

\* The trainer's DELETE with a reason was answered with the cancelled booking.
TrainerCancelStored ==
    \E p \in Procs, i \in Ids :
        /\ result[p].status = 200 /\ result[p].detail = <<"cancelled_by_trainer">>
        /\ db[i].status = "cancelled_by_trainer" /\ db[i].cancellation_reason = "sick"
        /\ db[i].cancelled_at = now

\* C26: a step stores a review only for a booking that the request found
\* completed and without a review, only on the request of that booking's
\* client, and only while the booking still has no review; so no booking ever
\* has two reviews.
OneReviewByItsClient ==
    [][/\ \A b \in BookingIds : Cardinality({r \in reviews' : r.booking = b}) <= 1
       /\ \A p \in Procs :
            (pc[p] = "review" /\ reviews' # reviews)
            => /\ obj[p].status = "completed"
               /\ req[p].user = [role |-> "client", id |-> obj[p].client]
               /\ ReviewOf(obj[p].id) = {}
               /\ \A r \in reviews' \ reviews :
                     r.booking = obj[p].id /\ r.client = obj[p].client]_vars

\* Of two review requests for one completed booking that both passed the
\* validation, one stored the review and the other was refused by the
\* unique constraint.
SecondReviewRefused ==
    \E p \in Procs :
        /\ result[p] = Response(500, "integrity_error")
        /\ Cardinality(ReviewOf(1)) = 1
        /\ total_reviews(1) = 1
        /\ db[1].status = "completed"

\* C27: with every transaction step weakly fair, a create_booking call that
\* has passed validation eventually returns, with 201 after its commit or with
\* the conflict error, whatever row locks concurrent creates and payment
\* intents hold meanwhile.
CreateEventuallyReturns ==
    \A p \in Procs :
        (pc[p] = "create") ~> (pc[p] = "idle" /\ result[p].status \in {201, 400})

\* A create that holds the lock of the later booking waits for the earlier
\* one, whose lock a payment intent holds.
CreateWaitsForPayment ==
    \E p, q \in Procs :
        /\ pc[p] = "scan" /\ pc[q] = "pay"
        /\ held[p] = {2} /\ held[q] = {1}
        /\ req[p].scan = {1}

\* C28: for every booking whose create has committed, the booking-created
\* notification (the client's email and the trainer's) was dispatched exactly
\* once.
NotifiedExactlyOnce ==
    \A i \in Ids : Committed(i) => Len(outbox[i]) = 1

\* C29: the admin cancel that finds the booking cancelled_by_client or
\* cancelled_by_trainer answers the 400 error and writes nothing; on a booking
\* in any other status it stores cancelled_by_trainer, the reason prefixed by
\* "[ADMIN] " and the time of the call, and only an admin gets that far.
AdminCancelGuarded ==
    [][\A p \in Procs :
        (pc[p] = "admin_cancel" /\ pc'[p] = "idle")
        => /\ req[p].user.role = "admin"
           /\ IF obj[p].status \in {"cancelled_by_client", "cancelled_by_trainer"}
              THEN /\ result'[p] = Response(400, "already_cancelled")
                   /\ db' = db
              ELSE /\ result'[p].status = 200
                   /\ db'[obj[p].id].status = "cancelled_by_trainer"
                   /\ db'[obj[p].id].cancellation_reason = "[ADMIN] " \o req[p].data
                   /\ db'[obj[p].id].cancelled_at = now]_vars

\* The admin's cancel of a booking the client had cancelled was refused, and
\* the client's reason and time are still stored.
AdminCancelRefused ==
    \E p \in Procs, i \in Ids :
        /\ result[p] = Response(400, "already_cancelled")
        /\ db[i].status = "cancelled_by_client"
        /\ db[i].cancellation_reason = "sick"
        /\ db[i].cancelled_at # NoTime

\* C30: every step leaves each payment with 0 <= refund_amount <= amount, and a
\* refund request whose loaded payment is not in status succeeded, or whose
\* amount is above what is left to refund, ends without a 200 and leaves the
\* payments as they were.
RefundWithinAmount ==
    [][/\ \A pm \in payments' : 0 <= pm.refund_amount /\ pm.refund_amount <= pm.amount
       /\ \A p \in Procs :
            (/\ pc[p] = "refunding" /\ pc'[p] = "idle"
             /\ \/ obj[p].status # "succeeded"
                \/ req[p].data.amount > obj[p].amount - obj[p].refund_amount)
            => payments' = payments /\ result'[p].status # 200]_vars

\* A payment refunded 10.00 of 18.75 and reported succeeded again, on which a
\* second refund of 10.00 was refused.
RefundAboveRemainderRefused ==
    \E pm \in payments, p \in Procs :
        /\ pm.refund_amount = 1000 /\ pm.amount = 1875
        /\ result[p].status = 400 /\ result[p].error = "exceeds_refundable"

====
